---- MODULE Spec2Model ----
(***************************************************************************)
(* State-machine model of the BalanceDisplay component                     *)
(* (src/src/components/BalanceDisplay.tsx): the balance poller (mount      *)
(* effect, 30 s interval, manual refresh, loadBalance) and the withdrawal  *)
(* dispatcher (handleWithdraw, manual QR dialog, connected sendTransaction *)
(* and its 5 s re-poll), and of its parent AppContent (src/unnamed/        *)
(* part_000): the wallet session, the validation of its address, manual    *)
(* entry, the screen choice and the two Back buttons (SpecApp).            *)
(*                                                                         *)
(* The event loop is single threaded: every action below is one task of    *)
(* the loop (an event handler, a timer callback or the continuation of an  *)
(* await), followed by the re-render and the effect run it causes.         *)
(* A callback created in a render reads the values of THAT render: such a  *)
(* closure is modelled as the record of the values it captured.            *)
(***************************************************************************)
EXTENDS Integers, Sequences, FiniteSets, TLC

\* ------------------------------------------------------------------ bounds
MaxAsync == 2        \* asynchronous operations and timeouts outstanding at one time
MaxAppAsync == 3     \* the same, counted over the parent, the session and all instances

\* --------------------------------------------------------------- constants
IntervalMs == 30000
RepollDelayMs == 5000

Addresses == {"A", "B"}

VARIABLES
    address, isManual, isTestnet,   \* props
    balance, loading, refreshing, error, showWithdrawModal, qrCode, \* useState
    mounted,        \* "rendered" (before the first effect), "mounted", "unmounted"
    interval,       \* <<>> or <<closure of the armed setInterval callback>>
    inflight,       \* getWalletBalance calls awaiting their response, in start order
    qrPending,      \* QRCode.toDataURL calls awaiting their result
    txPending,      \* sendTransaction calls awaiting their result
    timeouts,       \* pending setTimeout callbacks
    returned,       \* <<>> or <<the last response of the Balance Reader>>
    lastOp,         \* the operation that produced the current state
    \* AppContent (the parent) and the wallet session
    tonAddress,     \* useTonAddress(): "" or the address of the wallet session
    manualAddress,  \* useState: "" (null) or the address typed in
    isValidatingTonConnect, tonConnectError,    \* useState
    validating,     \* validateUserAddress calls awaiting their result
    disconnecting,  \* tonConnectUI.disconnect() calls awaiting their result
    orphaned,       \* number of getWalletBalance calls of instances that are gone
    verdict         \* outcome of the validation of the current wallet address

props   == <<address, isManual, isTestnet>>
ustate  == <<balance, loading, refreshing, error, showWithdrawModal, qrCode>>
pending == <<qrPending, txPending, timeouts>>
app     == <<tonAddress, manualAddress, isValidatingTonConnect, tonConnectError,
             validating, disconnecting, orphaned, verdict>>
vars    == <<address, isManual, isTestnet, balance, loading, refreshing, error,
             showWithdrawModal, qrCode, mounted, interval, inflight,
             qrPending, txPending, timeouts, returned, lastOp,
             tonAddress, manualAddress, isValidatingTonConnect, tonConnectError,
             validating, disconnecting, orphaned, verdict>>

\* ------------------------------------------------------------ data model
Null == <<>>
Some(v) == <<v>>

WalletBalance(a) ==
    [availableToWithdraw |-> a, stillLocked |-> 10 - a,
     totalUserDeposit |-> 10, totalUserDepositAndReward |-> 10 + a]

\* The responses of the Balance Reader that are tried: nothing and something to withdraw.
Balances == {WalletBalance(a) : a \in {0, 2}}

\* Asynchronous work outstanding: requests, encodings, transactions, timeouts.
Outstanding == Len(inflight) + Len(qrPending) + Len(txPending) + Len(timeouts)

NoError == "null"
FetchErrorMsg == "Failed to load balance. Please try again."
TxErrorMsg == "Transaction failed. Please try again."

\* A contract address that ignores the network flag.
lockerAddress_mainnetOnly(t) == "LOCKER_ADDRESSES.mainnet"

lockerAddress(t) == IF t THEN "LOCKER_ADDRESSES.testnet" ELSE "LOCKER_ADDRESSES.mainnet"

\* The values of one render that the loadBalance created in it reads.
Closure(b, a, t) == [balance |-> b, address |-> a, isTestnet |-> t]

\* The values the setInterval callback created in a render reads.
IntervalClosure(b, a, t, m) ==
    [period |-> IntervalMs, showWithdrawModal |-> m, loadBalance |-> Closure(b, a, t)]

RemoveAt(s, i) == [j \in 1..(Len(s) - 1) |-> IF j < i THEN s[j] ELSE s[j + 1]]

\* --------------------------------------------------------------- loadBalance
\* `if (!balance)` of loadBalance, on the balance its closure captured.
ShowsFullLoading(c) == c.balance = Null

\* loadBalance up to its await: the flags, the error and the request.
\* Setting state of an unmounted component is ignored; the request is sent.
loadBalance(c) ==
    /\ Outstanding < MaxAsync
    /\ IF mounted = "unmounted"
         THEN UNCHANGED <<loading, refreshing, error>>
         ELSE /\ loading' = IF ShowsFullLoading(c) THEN TRUE ELSE loading
              /\ refreshing' = IF ShowsFullLoading(c) THEN refreshing ELSE TRUE
              /\ error' = NoError
    /\ inflight' = Append(inflight,
                     [contract |-> lockerAddress(c.isTestnet), address |-> c.address,
                      isTestnet |-> c.isTestnet])

\* The body of the effect: loadBalance() and setInterval, both closing over
\* the render that ran the effect.
RunEffect(b, a, t, m) ==
    /\ loadBalance(Closure(b, a, t))
    /\ interval' = Some(IntervalClosure(b, a, t, m))

\* A dependency array that leaves out showWithdrawModal.
EffectDeps_noModal(a, t, m) == <<a, t>>

\* The dependency array of the effect.
EffectDeps(a, t, m) == <<a, t, m>>

\* A commit whose render has the values (b, a, t, m): when a dependency
\* changed, the cleanup clears the interval and the effect runs again.
Commit(b, a, t, m) ==
    IF EffectDeps(a, t, m) # EffectDeps(address, isTestnet, showWithdrawModal)
      THEN RunEffect(b, a, t, m)
      ELSE UNCHANGED <<loading, refreshing, error, inflight, interval>>

\* ------------------------------------------------- external collaborators
\* helpers.formatContractAddress: the text form of a contract address for a network.
formatContractAddress(a, t) == <<a, IF t THEN "testnet" ELSE "mainnet", "bounceable">>

\* helpers.generateWithdrawDeepLink: the transfer URI for a contract and a network.
generateWithdrawDeepLink(a, t) ==
    [to |-> formatContractAddress(a, t), amount |-> "WITHDRAW_AMOUNT", text |-> "w"]

\* QRCode.toDataURL: the image data URI of a text.
toDataURL(text) == <<"data:image/png", text>>

\* ------------------------------------------------------------------ actions
\* First run of the effect after the initial render.
Mount ==
    /\ mounted = "rendered"
    /\ mounted' = "mounted"
    /\ RunEffect(balance, address, isTestnet, showWithdrawModal)
    /\ lastOp' = "mount"
    /\ UNCHANGED <<returned, app>>
    /\ UNCHANGED <<props, balance, showWithdrawModal, qrCode, pending>>

\* `if (!showWithdrawModal)` of the interval callback.
TickSkips(c) == c.showWithdrawModal

\* One firing of the setInterval callback.
Tick ==
    /\ interval # Null
    /\ IF TickSkips(interval[1])
         THEN UNCHANGED <<loading, refreshing, error, inflight>>
         ELSE loadBalance(interval[1].loadBalance)
    /\ lastOp' = "tick"
    /\ UNCHANGED <<returned, app>>
    /\ UNCHANGED <<props, balance, showWithdrawModal, qrCode, mounted,
                   interval, pending>>

\* The Refresh button: rendered outside the loading screen, disabled={refreshing}.
RefreshEnabled == mounted = "mounted" /\ ~loading /\ ~refreshing

\* Click on "Refresh Balance": loadBalance of the current render.
Refresh ==
    /\ RefreshEnabled
    /\ loadBalance(Closure(balance, address, isTestnet))
    /\ lastOp' = "refresh"
    /\ UNCHANGED <<returned, app>>
    /\ UNCHANGED <<props, balance, showWithdrawModal, qrCode, mounted,
                   interval, pending>>

\* A success path that keeps a balance already shown.
FetchSucceed_keepsOld(i, v) ==
    /\ inflight' = RemoveAt(inflight, i)
    /\ IF mounted = "mounted"
         THEN /\ balance' = IF balance = Null THEN Some(v) ELSE balance
              /\ loading' = FALSE
              /\ refreshing' = FALSE
         ELSE UNCHANGED <<balance, loading, refreshing>>
    /\ returned' = Some(v)
    /\ lastOp' = "fetchOk"
    /\ UNCHANGED app
    /\ UNCHANGED <<props, error, showWithdrawModal, qrCode, mounted, interval,
                   pending>>

\* getWalletBalance resolves with v: setBalance, then the finally block.
FetchSucceed(i, v) ==
    /\ inflight' = RemoveAt(inflight, i)
    /\ IF mounted = "mounted"
         THEN /\ balance' = Some(v)
              /\ loading' = FALSE
              /\ refreshing' = FALSE
         ELSE UNCHANGED <<balance, loading, refreshing>>
    /\ returned' = Some(v)
    /\ lastOp' = "fetchOk"
    /\ UNCHANGED app
    /\ UNCHANGED <<props, error, showWithdrawModal, qrCode, mounted, interval,
                   pending>>

\* A catch block that also drops the balance shown.
FetchFail_clears(i) ==
    /\ inflight' = RemoveAt(inflight, i)
    /\ IF mounted = "mounted"
         THEN /\ error' = FetchErrorMsg
              /\ balance' = Null
              /\ loading' = FALSE
              /\ refreshing' = FALSE
         ELSE UNCHANGED <<error, balance, loading, refreshing>>
    /\ lastOp' = "fetchFail"
    /\ UNCHANGED <<returned, app>>
    /\ UNCHANGED <<props, showWithdrawModal, qrCode, mounted, interval, pending>>

\* A failure path without the finally block.
FetchFail_noFinally(i) ==
    /\ inflight' = RemoveAt(inflight, i)
    /\ error' = IF mounted = "mounted" THEN FetchErrorMsg ELSE error
    /\ lastOp' = "fetchFail"
    /\ UNCHANGED <<returned, app>>
    /\ UNCHANGED <<props, balance, loading, refreshing, showWithdrawModal, qrCode,
                   mounted, interval, pending>>

\* getWalletBalance rejects: the catch block, then the finally block.
FetchFail(i) ==
    /\ inflight' = RemoveAt(inflight, i)
    /\ IF mounted = "mounted"
         THEN /\ error' = FetchErrorMsg
              /\ loading' = FALSE
              /\ refreshing' = FALSE
         ELSE UNCHANGED <<error, loading, refreshing>>
    /\ lastOp' = "fetchFail"
    /\ UNCHANGED <<returned, app>>
    /\ UNCHANGED <<props, balance, showWithdrawModal, qrCode, mounted, interval,
                   pending>>

\* A guard that forgets the zero balance.
WithdrawRefused_nullOnly(b) == b = Null

\* `if (!balance || balance.availableToWithdraw === 0n) return;`
WithdrawRefused(b) == b = Null \/ b[1].availableToWithdraw = 0

\* A dispatcher whose branches are swapped.
handleWithdraw_swapped ==
    /\ mounted = "mounted"
    /\ IF WithdrawRefused(balance)
         THEN UNCHANGED pending
         ELSE IF ~isManual
           THEN /\ Outstanding < MaxAsync
                /\ qrPending' = Append(qrPending,
                      [text |-> generateWithdrawDeepLink(lockerAddress(isTestnet), isTestnet)])
                /\ UNCHANGED <<txPending, timeouts>>
           ELSE /\ Outstanding < MaxAsync
                /\ txPending' = Append(txPending,
                      [messages |-> << [address |-> formatContractAddress(lockerAddress(isTestnet), isTestnet),
                                        amount |-> "WITHDRAW_AMOUNT",
                                        payload |-> <<0, "w">>] >>,
                       closure |-> Closure(balance, address, isTestnet)])
                /\ UNCHANGED <<qrPending, timeouts>>
    /\ lastOp' = "withdraw"
    /\ UNCHANGED <<returned, app>>
    /\ UNCHANGED <<props, ustate, mounted, interval, inflight>>

\* handleWithdraw of the current render, up to its await.
handleWithdraw ==
    /\ mounted = "mounted"
    /\ IF WithdrawRefused(balance)
         THEN UNCHANGED pending
         ELSE IF isManual
           THEN /\ Outstanding < MaxAsync
                /\ qrPending' = Append(qrPending,
                      [text |-> generateWithdrawDeepLink(lockerAddress(isTestnet), isTestnet)])
                /\ UNCHANGED <<txPending, timeouts>>
           ELSE /\ Outstanding < MaxAsync
                /\ txPending' = Append(txPending,
                      [messages |-> << [address |-> formatContractAddress(lockerAddress(isTestnet), isTestnet),
                                        amount |-> "WITHDRAW_AMOUNT",
                                        payload |-> <<0, "w">>] >>,
                       closure |-> Closure(balance, address, isTestnet)])
                /\ UNCHANGED <<qrPending, timeouts>>
    /\ lastOp' = "withdraw"
    /\ UNCHANGED <<returned, app>>
    /\ UNCHANGED <<props, ustate, mounted, interval, inflight>>

\* QRCode.toDataURL resolves: setQrCode, setShowWithdrawModal(true).
QrDone(i) ==
    /\ qrPending' = RemoveAt(qrPending, i)
    /\ IF mounted = "mounted"
         THEN /\ qrCode' = toDataURL(qrPending[i].text)
              /\ showWithdrawModal' = TRUE
              /\ Commit(balance, address, isTestnet, TRUE)
         ELSE UNCHANGED <<qrCode, showWithdrawModal, loading, refreshing, error,
                          inflight, interval>>
    /\ lastOp' = "qrDone"
    /\ UNCHANGED <<returned, app>>
    /\ UNCHANGED <<props, balance, mounted, txPending, timeouts>>

\* sendTransaction resolves: setTimeout(() => loadBalance(), 5000).
TxSucceed(i) ==
    /\ txPending' = RemoveAt(txPending, i)
    /\ timeouts' = Append(timeouts,
                     [delay |-> RepollDelayMs, closure |-> txPending[i].closure])
    /\ lastOp' = "txOk"
    /\ UNCHANGED <<returned, app>>
    /\ UNCHANGED <<props, ustate, mounted, interval, inflight, qrPending>>

\* A re-poll scheduled after the try block, so also on rejection.
TxFail_repolls(i) ==
    /\ txPending' = RemoveAt(txPending, i)
    /\ timeouts' = Append(timeouts,
                     [delay |-> RepollDelayMs, closure |-> txPending[i].closure])
    /\ error' = IF mounted = "mounted" THEN TxErrorMsg ELSE error
    /\ lastOp' = "txFail"
    /\ UNCHANGED <<returned, app>>
    /\ UNCHANGED <<props, balance, loading, refreshing, showWithdrawModal, qrCode,
                   mounted, interval, inflight, qrPending>>

\* sendTransaction rejects: the catch block of handleWithdraw.
TxFail(i) ==
    /\ txPending' = RemoveAt(txPending, i)
    /\ error' = IF mounted = "mounted" THEN TxErrorMsg ELSE error
    /\ lastOp' = "txFail"
    /\ UNCHANGED <<returned, app>>
    /\ UNCHANGED <<props, balance, loading, refreshing, showWithdrawModal, qrCode,
                   mounted, interval, inflight, qrPending, timeouts>>

\* A setTimeout callback fires: loadBalance of the render that made it.
TimeoutFire(i) ==
    /\ loadBalance(timeouts[i].closure)
    /\ timeouts' = RemoveAt(timeouts, i)
    /\ lastOp' = "timeout"
    /\ UNCHANGED <<returned, app>>
    /\ UNCHANGED <<props, balance, showWithdrawModal, qrCode, mounted, interval,
                   qrPending, txPending>>

\* The Close button of the dialog: setShowWithdrawModal(false).
Close ==
    /\ mounted = "mounted"
    /\ showWithdrawModal
    /\ showWithdrawModal' = FALSE
    /\ Commit(balance, address, isTestnet, FALSE)
    /\ lastOp' = "close"
    /\ UNCHANGED <<returned, app>>
    /\ UNCHANGED <<props, balance, qrCode, mounted, pending>>

\* The parent renders the component with other props.
PropsChange(a, m, t) ==
    /\ mounted = "mounted"
    /\ <<a, m, t>> # props
    /\ address' = a
    /\ isManual' = m
    /\ isTestnet' = t
    /\ Commit(balance, a, t, showWithdrawModal)
    /\ lastOp' = "props"
    /\ UNCHANGED <<returned, app>>
    /\ UNCHANGED <<balance, showWithdrawModal, qrCode, mounted, pending>>

\* The parent stops rendering the component: the cleanup of the effect.
Dispose ==
    /\ mounted = "mounted"
    /\ mounted' = "unmounted"
    /\ interval' = Null
    /\ lastOp' = "dispose"
    /\ UNCHANGED <<returned, app>>
    /\ UNCHANGED <<props, ustate, inflight, pending>>

\* The parent's state before anything is connected or typed.
AppIdle ==
    /\ tonAddress = ""
    /\ manualAddress = ""
    /\ isValidatingTonConnect = FALSE
    /\ tonConnectError = NoError
    /\ validating = <<>>
    /\ disconnecting = <<>>
    /\ orphaned = 0
    /\ verdict = "none"

\* The component alone, rendered by some parent with some props.
Init ==
    /\ address \in Addresses
    /\ isManual \in BOOLEAN
    /\ isTestnet \in BOOLEAN
    /\ balance = Null
    /\ loading = TRUE
    /\ refreshing = FALSE
    /\ error = NoError
    /\ showWithdrawModal = FALSE
    /\ qrCode = ""
    /\ mounted = "rendered"
    /\ interval = Null
    /\ inflight = <<>>
    /\ qrPending = <<>>
    /\ txPending = <<>>
    /\ timeouts = <<>>
    /\ returned = Null
    /\ lastOp = "init"
    /\ AppIdle

Next ==
    \/ Mount
    \/ Tick
    \/ Refresh
    \/ \E i \in 1..Len(inflight) : \E v \in Balances : FetchSucceed(i, v)
    \/ \E i \in 1..Len(inflight) : FetchFail(i)
    \/ handleWithdraw
    \/ \E i \in 1..Len(qrPending) : QrDone(i)
    \/ \E i \in 1..Len(txPending) : TxSucceed(i)
    \/ \E i \in 1..Len(txPending) : TxFail(i)
    \/ \E i \in 1..Len(timeouts) : TimeoutFire(i)
    \/ Close
    \/ \E a \in Addresses, m \in BOOLEAN, t \in BOOLEAN : PropsChange(a, m, t)
    \/ Dispose

Spec == Init /\ [][Next]_vars

\* Some balance fetch in flight gets its response.
FetchCompletes ==
    \E i \in 1..Len(inflight) :
        FetchFail(i) \/ \E v \in Balances : FetchSucceed(i, v)

\* The component with a Balance Reader that answers: a request is not left
\* pending forever.
FairSpec == Spec /\ WF_vars(FetchCompletes)

\* ======================================================================
\* AppContent (src/unnamed/part_000) with the wallet session and the
\* BalanceDisplay it renders.  In this part isManual is AppContent's state,
\* address is the currentAddress it passes down, and a BalanceDisplay that
\* is not rendered has lost its state.
\* ======================================================================
ManualAddresses == {"M"}

InvalidMsg == "tonConnectError: no deposits in this wallet"
FailedMsg == "tonConnectError: could not validate the wallet"

\* tonConnectUI.connected
connected == tonAddress # ""

\* `const currentAddress = tonAddress || manualAddress;`
currentAddress(ta, ma) == IF ta # "" THEN ta ELSE ma

\* What AppContent returns for its state.
Screen(ta, ma, val, err) ==
    IF val THEN "validating"
    ELSE IF ta # "" /\ err # NoError THEN "notFound"
    ELSE IF currentAddress(ta, ma) = "" THEN "connector"
    ELSE "balance"

AppOutstanding ==
    Outstanding + orphaned + Len(validating) + Len(disconnecting)

\* Results that arrive for an earlier wallet address are no longer current.
Stale(q) == [k \in 1..Len(q) |-> [q[k] EXCEPT !.current = FALSE]]

\* The BalanceDisplay is removed: effect cleanup, its state is dropped, its
\* requests stay pending.  `extra` counts the requests it sent in this very task.
HideBalance(extra) ==
    /\ mounted' = "unmounted"
    /\ interval' = Null
    /\ orphaned' = orphaned + Len(inflight) + extra
    /\ inflight' = <<>>
    /\ balance' = Null
    /\ loading' = TRUE
    /\ refreshing' = FALSE
    /\ error' = NoError
    /\ showWithdrawModal' = FALSE
    /\ qrCode' = ""

\* AppContent has rendered screen scr with currentAddress cur and isManual man.
RenderChild(scr, cur, man) ==
    IF scr = "balance"
      THEN /\ address' = cur
           /\ isManual' = man
           /\ IF mounted = "mounted"
                THEN /\ Commit(balance, cur, isTestnet, showWithdrawModal)
                     /\ UNCHANGED mounted
                ELSE /\ RunEffect(balance, cur, isTestnet, showWithdrawModal)
                     /\ mounted' = "mounted"
           /\ UNCHANGED <<balance, showWithdrawModal, qrCode, orphaned>>
      ELSE /\ isManual' = man
           /\ UNCHANGED address
           /\ IF mounted = "mounted"
                THEN HideBalance(0)
                ELSE UNCHANGED <<ustate, mounted, interval, inflight, orphaned>>

\* useTonAddress() changes to a wallet address: the render with the new
\* address, then the validation effect (setIsValidatingTonConnect(true), the
\* validation call) and the render with the spinner.
WalletConnected(a) ==
    /\ a # tonAddress
    /\ AppOutstanding + 2 <= MaxAppAsync
    /\ tonAddress' = a
    /\ isValidatingTonConnect' = TRUE
    /\ tonConnectError' = NoError
    /\ validating' = Append(Stale(validating), [current |-> TRUE])
    /\ verdict' = "pending"
    /\ address' = a
    /\ HideBalance(IF Screen(a, manualAddress, isValidatingTonConnect, tonConnectError) = "balance"
                     THEN 1 ELSE 0)
    /\ lastOp' = "walletConnected"
    /\ UNCHANGED <<isManual, isTestnet, manualAddress, disconnecting, pending, returned>>

\* useTonAddress() becomes empty without a disconnect() call of this page.
WalletLost ==
    /\ tonAddress # ""
    /\ tonAddress' = ""
    /\ tonConnectError' = NoError
    /\ validating' = Stale(validating)
    /\ verdict' = "none"
    /\ RenderChild(Screen("", manualAddress, isValidatingTonConnect, NoError),
                   currentAddress("", manualAddress), isManual)
    /\ lastOp' = "walletLost"
    /\ UNCHANGED <<isTestnet, manualAddress, isValidatingTonConnect, disconnecting,
                   pending, returned>>

\* validateUserAddress settles with r: then / catch / finally.
ValidateDone(i, r) ==
    /\ validating' = RemoveAt(validating, i)
    /\ manualAddress' = IF r = "valid" THEN "" ELSE manualAddress
    /\ tonConnectError' = CASE r = "valid" -> tonConnectError
                            [] r = "invalid" -> InvalidMsg
                            [] OTHER -> FailedMsg
    /\ isValidatingTonConnect' = FALSE
    /\ verdict' = IF validating[i].current THEN r ELSE verdict
    /\ RenderChild(Screen(tonAddress, manualAddress', FALSE, tonConnectError'),
                   currentAddress(tonAddress, manualAddress'),
                   IF r = "valid" THEN FALSE ELSE isManual)
    /\ lastOp' = "validated"
    /\ UNCHANGED <<isTestnet, tonAddress, disconnecting, pending, returned>>

\* AppContent.handleAddressSet, called by the WalletConnector.
handleAddressSet(a) ==
    /\ Screen(tonAddress, manualAddress, isValidatingTonConnect, tonConnectError) = "connector"
    /\ manualAddress' = a
    /\ tonConnectError' = NoError
    /\ RenderChild(Screen(tonAddress, a, isValidatingTonConnect, NoError),
                   currentAddress(tonAddress, a), TRUE)
    /\ lastOp' = "addressSet"
    /\ UNCHANGED <<isTestnet, tonAddress, isValidatingTonConnect, validating,
                   disconnecting, verdict, pending, returned>>

\* AppContent.handleDisconnect, the onDisconnect of the BalanceDisplay.
onDisconnect(ta) ==
    /\ manualAddress' = ""
    /\ tonConnectError' = NoError
    /\ RenderChild(Screen(ta, "", isValidatingTonConnect, NoError),
                   currentAddress(ta, ""), FALSE)

\* A Back handler that does not wait for the session to end.
handleDisconnect_noAwait ==
    /\ mounted = "mounted" /\ ~loading
    /\ AppOutstanding < MaxAppAsync
    /\ disconnecting' = IF ~isManual /\ connected
                          THEN Append(disconnecting, [then |-> "none"])
                          ELSE disconnecting
    /\ onDisconnect(tonAddress)
    /\ lastOp' = "onDisconnect"
    /\ UNCHANGED <<isTestnet, tonAddress, isValidatingTonConnect, validating,
                   verdict, pending, returned>>

\* BalanceDisplay.handleDisconnect (the Back button), up to its await.
handleDisconnect ==
    /\ mounted = "mounted" /\ ~loading
    /\ IF ~isManual /\ connected
         THEN /\ AppOutstanding < MaxAppAsync
              /\ disconnecting' = Append(disconnecting, [then |-> "onDisconnect"])
              /\ lastOp' = "disconnectCall"
              /\ UNCHANGED <<props, ustate, mounted, interval, inflight, orphaned,
                             manualAddress, tonConnectError>>
         ELSE /\ onDisconnect(tonAddress)
              /\ lastOp' = "onDisconnect"
              /\ UNCHANGED disconnecting
    /\ UNCHANGED <<isTestnet, tonAddress, isValidatingTonConnect, validating,
                   verdict, pending, returned>>

\* tonConnectUI.disconnect() resolves: the session is gone, the validation
\* effect runs its else branch, and the awaiting handler continues.
DisconnectDone(i) ==
    /\ tonAddress # ""
    /\ disconnecting' = RemoveAt(disconnecting, i)
    /\ tonAddress' = ""
    /\ validating' = Stale(validating)
    /\ verdict' = "none"
    /\ IF disconnecting[i].then = "onDisconnect"
         THEN /\ onDisconnect("")
              /\ lastOp' = "onDisconnectAfter"
         ELSE /\ tonConnectError' = NoError
              /\ RenderChild(Screen("", manualAddress, isValidatingTonConnect, NoError),
                             currentAddress("", manualAddress), isManual)
              /\ lastOp' = "disconnected"
              /\ UNCHANGED manualAddress
    /\ UNCHANGED <<isTestnet, isValidatingTonConnect, pending, returned>>

\* tonConnectUI.disconnect() rejects: no caller has a catch for it.
DisconnectFail(i) ==
    /\ disconnecting' = RemoveAt(disconnecting, i)
    /\ lastOp' = "disconnectRejected"
    /\ UNCHANGED <<props, ustate, mounted, interval, inflight, pending, returned,
                   tonAddress, manualAddress, isValidatingTonConnect,
                   tonConnectError, validating, orphaned, verdict>>

\* The Back button of the not-found screen.
NotFoundBack ==
    /\ Screen(tonAddress, manualAddress, isValidatingTonConnect, tonConnectError) = "notFound"
    /\ AppOutstanding < MaxAppAsync
    /\ disconnecting' = IF connected THEN Append(disconnecting, [then |-> "none"])
                                     ELSE disconnecting
    /\ tonConnectError' = NoError
    /\ RenderChild(Screen(tonAddress, manualAddress, isValidatingTonConnect, NoError),
                   currentAddress(tonAddress, manualAddress), isManual)
    /\ lastOp' = "notFoundBack"
    /\ UNCHANGED <<isTestnet, tonAddress, manualAddress, isValidatingTonConnect,
                   validating, verdict, pending, returned>>

\* The response to a request of an instance that is gone: nothing to update.
OrphanDone ==
    /\ orphaned > 0
    /\ orphaned' = orphaned - 1
    /\ lastOp' = "orphanDone"
    /\ UNCHANGED <<props, ustate, mounted, interval, inflight, pending, returned,
                   tonAddress, manualAddress, isValidatingTonConnect,
                   tonConnectError, validating, disconnecting, verdict>>

\* The page after its first render: nothing connected, nothing typed.
InitApp ==
    /\ address = ""
    /\ isManual = FALSE
    /\ isTestnet \in BOOLEAN
    /\ balance = Null
    /\ loading = TRUE
    /\ refreshing = FALSE
    /\ error = NoError
    /\ showWithdrawModal = FALSE
    /\ qrCode = ""
    /\ mounted = "unmounted"
    /\ interval = Null
    /\ inflight = <<>>
    /\ qrPending = <<>>
    /\ txPending = <<>>
    /\ timeouts = <<>>
    /\ returned = Null
    /\ lastOp = "init"
    /\ AppIdle

NextApp ==
    \/ \E a \in Addresses : WalletConnected(a)
    \/ WalletLost
    \/ \E i \in 1..Len(validating) : \E r \in {"valid", "invalid", "error"} : ValidateDone(i, r)
    \/ \E a \in ManualAddresses : handleAddressSet(a)
    \/ handleDisconnect
    \/ \E i \in 1..Len(disconnecting) : DisconnectDone(i)
    \/ \E i \in 1..Len(disconnecting) : DisconnectFail(i)
    \/ NotFoundBack
    \/ OrphanDone
    \/ \E i \in 1..Len(inflight) : \E v \in Balances : FetchSucceed(i, v)
    \/ \E i \in 1..Len(inflight) : FetchFail(i)

SpecApp == InitApp /\ [][NextApp]_vars


\* ------------------------------------------------------------------ claims
Started == Len(inflight') > Len(inflight)
NewFetch == inflight'[Len(inflight')]
HasBalance == balance # Null

\* C1: a firing of the interval timer while the withdrawal dialog is open
\* starts no balance fetch and queues nothing for later.
C1_TickSkipsWhileOpen ==
    [][(lastOp' = "tick" /\ showWithdrawModal) =>
          UNCHANGED <<inflight, timeouts, loading, refreshing, error>>]_vars

C1_Witness ==
    /\ lastOp = "tick" /\ showWithdrawModal /\ mounted = "mounted"
    /\ interval # Null /\ inflight = <<>>

\* C2 (as claimed): the step that closes the withdrawal dialog starts no
\* balance fetch.
C2_CloseStartsNoFetch == [][lastOp' = "close" => inflight' = inflight]_vars

\* C3 (as claimed): from the step that opens the dialog up to and including
\* the step that closes it, lastBalance keeps its value.
C3_OpenDialogKeepsBalance ==
    [][(mounted = "mounted" /\ (showWithdrawModal \/ showWithdrawModal')) =>
          balance' = balance]_vars

\* C4 (as claimed): a fetch started while lastBalance is non-null sets
\* refreshing and leaves loading false; only a fetch started with lastBalance
\* null enters full loading.
C4_RefreshingWhenBalanceKnown ==
    [][(Started /\ mounted' = "mounted" /\ HasBalance) =>
          (refreshing' /\ ~loading')]_vars

\* C5 (as claimed): at most one balance fetch is in flight, and the manual
\* refresh is disabled whenever one is.
C5_AtMostOneInFlight ==
    /\ Len(inflight) <= 1
    /\ (inflight # <<>> => ~RefreshEnabled)

\* C6 (as claimed): a balance fetch is only started for the current
\* (address, isTestnet) pair of a component that is not disposed.
C6_NoFetchForPreviousKey ==
    [][Started =>
          /\ mounted' = "mounted"
          /\ NewFetch.address = address'
          /\ NewFetch.isTestnet = isTestnet']_vars

\* C7: a failed balance fetch leaves lastBalance as it was, sets a non-null
\* error and clears loading and refreshing.
C7_FailureKeepsBalance ==
    [][(lastOp' = "fetchFail" /\ mounted = "mounted") =>
          /\ balance' = balance
          /\ error' # NoError
          /\ ~loading'
          /\ ~refreshing']_vars

C7_Witness ==
    /\ lastOp = "fetchFail" /\ mounted = "mounted"
    /\ HasBalance /\ error = FetchErrorMsg /\ ~loading /\ ~refreshing

\* C8 (as claimed): right after a balance fetch completes successfully,
\* error is null.
C8_SuccessClearsError ==
    (lastOp = "fetchOk" /\ mounted = "mounted") => error = NoError

\* C9: the withdraw action changes nothing and calls nothing when lastBalance
\* is absent or availableToWithdraw is 0, in either mode.
C9_RefusedWithdrawIsNoOp ==
    [][(lastOp' = "withdraw" /\ (balance = Null \/ balance[1].availableToWithdraw = 0)) =>
          UNCHANGED <<props, ustate, mounted, interval, inflight, pending>>]_vars

C9_Witness ==
    /\ lastOp = "withdraw" /\ mounted = "mounted"
    /\ HasBalance /\ balance[1].availableToWithdraw = 0
    /\ qrPending = <<>> /\ txPending = <<>> /\ timeouts = <<>>

DestinationFor(t) ==
    IF t THEN <<"LOCKER_ADDRESSES.testnet", "testnet", "bounceable">>
         ELSE <<"LOCKER_ADDRESSES.mainnet", "mainnet", "bounceable">>

C15_DestinationFollowsNetwork ==
    [][lastOp' = "withdraw" =>
          /\ Len(qrPending') > Len(qrPending) =>
                qrPending'[Len(qrPending')].text.to = DestinationFor(isTestnet)
          /\ Len(txPending') > Len(txPending) =>
                \A k \in 1..Len(txPending'[Len(txPending')].messages) :
                   txPending'[Len(txPending')].messages[k].address
                      = DestinationFor(isTestnet)]_vars

C15_Witness ==
    /\ lastOp = "withdraw" /\ mounted = "mounted" /\ isTestnet /\ ~isManual
    /\ Len(txPending) = 1
    /\ txPending[1].messages[1].address = DestinationFor(TRUE)

\* C16: after a successful fetch lastBalance is exactly the value the
\* Balance Reader returned, and no other operation changes lastBalance.
C16_BalanceIsReaderResponse ==
    [][/\ (lastOp' = "fetchOk" /\ mounted = "mounted") => balance' = returned'
       /\ balance' # balance => lastOp' = "fetchOk"]_vars

C16_Witness ==
    /\ lastOp = "fetchOk" /\ mounted = "mounted"
    /\ balance = Some(WalletBalance(0)) /\ returned = balance
    /\ inflight # <<>>

\* C17: a permitted withdraw action in Manual mode asks for one QR encoding,
\* sends no transaction and schedules no re-poll, and the encoding's result
\* opens the dialog; in Connected mode it sends one transaction of one
\* message and asks for no encoding, and the transaction's result leaves the
\* dialog alone; an open dialog is closed by the Close action only.
C17_DispatchByMode ==
    [][/\ (lastOp' = "withdraw" /\ balance # Null /\ balance[1].availableToWithdraw # 0) =>
            /\ showWithdrawModal' = showWithdrawModal
            /\ timeouts' = timeouts
            /\ IF isManual
                 THEN Len(qrPending') = Len(qrPending) + 1 /\ txPending' = txPending
                 ELSE /\ Len(txPending') = Len(txPending) + 1
                      /\ Len(txPending'[Len(txPending')].messages) = 1
                      /\ qrPending' = qrPending
       /\ (lastOp' = "qrDone" /\ mounted = "mounted") =>
            showWithdrawModal' /\ txPending' = txPending /\ timeouts' = timeouts
       /\ lastOp' \in {"txOk", "txFail", "timeout"} =>
            showWithdrawModal' = showWithdrawModal
       /\ (showWithdrawModal /\ ~showWithdrawModal') => lastOp' = "close"]_vars

C17_Witness ==
    /\ lastOp = "qrDone" /\ mounted = "mounted" /\ isManual
    /\ showWithdrawModal /\ qrCode # ""
    /\ txPending = <<>> /\ timeouts = <<>>

\* C18: with a Balance Reader that answers, a busy view (loading or
\* refreshing) stops being busy; after a failed first fetch the view has left
\* the loading screen, the Refresh button is enabled and the interval is armed.
C18_NeverStuckBusy ==
    /\ (mounted = "mounted" /\ (loading \/ refreshing))
          ~> (mounted # "mounted" \/ (~loading /\ ~refreshing))
    /\ [](mounted = "mounted" /\ (loading \/ refreshing) => inflight # <<>>)
    /\ []((lastOp = "fetchFail" /\ mounted = "mounted") =>
             (~loading /\ RefreshEnabled /\ interval # Null))

C18_Witness ==
    /\ lastOp = "fetchFail" /\ mounted = "mounted" /\ balance = Null
    /\ ~loading /\ error = FetchErrorMsg /\ inflight = <<>>

\* A balance request was sent in this step, by the live instance or by one
\* that the same step removed.
Requested == Len(inflight') + orphaned' > Len(inflight) + orphaned

\* The balance view shows the address of the wallet session.
ShowsWallet == mounted = "mounted" /\ tonAddress # "" /\ address = tonAddress

\* C11: in Connected mode with a connected session the Back button calls
\* disconnect() and calls onDisconnect only in the step in which that call
\* has completed; otherwise it calls no disconnect() and onDisconnect clears
\* the manual address and the mode flag.
C11_DisconnectThenBubble ==
    [][/\ lastOp' = "disconnectCall" =>
            /\ ~isManual /\ connected
            /\ Len(disconnecting') = Len(disconnecting) + 1
            /\ UNCHANGED <<manualAddress, isManual, tonConnectError, tonAddress, mounted>>
       /\ lastOp' = "onDisconnect" =>
            /\ isManual \/ ~connected
            /\ disconnecting' = disconnecting
            /\ manualAddress' = "" /\ ~isManual'
       /\ lastOp' = "onDisconnectAfter" =>
            /\ Len(disconnecting') = Len(disconnecting) - 1
            /\ tonAddress' = ""
            /\ manualAddress' = "" /\ ~isManual']_vars

C11_Witness ==
    /\ lastOp = "onDisconnectAfter" /\ tonAddress = "" /\ disconnecting = <<>>
    /\ mounted = "unmounted" /\ manualAddress = ""

\* The failure that ended this step is visible in the UI state or the
\* balance view has been left.
Handled == error' # NoError \/ tonConnectError' # NoError \/ mounted' # "mounted"

\* C12 (as claimed): every failed asynchronous operation, here a balance
\* fetch or a disconnect() of the wallet session, is turned into UI state
\* by its caller or lets the user leave the balance view.
C12_FailuresAreHandled ==
    [][lastOp' \in {"fetchFail", "disconnectRejected"} => Handled]_vars

\* C13 (as claimed): whenever the balance view is shown, isManual is false
\* exactly when the address shown is the address of the wallet session.
C13_ModeReflectsSource == mounted = "mounted" => (~isManual <=> ShowsWallet)

\* C14 (as claimed): the balance view is not shown for a wallet address whose
\* validation returned false, until the session's address changes.
C14_InvalidIsTerminal == ShowsWallet => verdict # "invalid"

\* C19 (as claimed): the balance view is shown for a wallet address, and a
\* balance request is sent for it, only after the validation of that
\* address has returned true.
C19_GatedOnValidation ==
    [][/\ (mounted' = "mounted" /\ tonAddress' # "" /\ address' = tonAddress') =>
            verdict' = "valid"
       /\ (Requested /\ tonAddress' # "" /\ address' = tonAddress') =>
            verdict' = "valid"]_vars

\* C20 (as claimed): a response only becomes lastBalance when its request
\* was sent for the current (address, isTestnet) pair; the response to a
\* request for a previous address or network never overwrites lastBalance.
C20_ResponseOfCurrentKey ==
    [][\A i \in 1..Len(inflight) : \A v \in Balances :
          (FetchSucceed(i, v) /\ mounted = "mounted") =>
              /\ inflight[i].address = address
              /\ inflight[i].isTestnet = isTestnet]_vars

====
